---- MODULE Spec2Model ----
(***************************************************************************)
(* State-machine model of SSCHA_Minimizer (src/Modules/SchaMinimizer.py):  *)
(* the init()/run() driver, minimization_step(), check_stop() and the     *)
(* ensemble the minimizer talks to.                                        *)
(*                                                                         *)
(* Representation.  The crystal of the model has one q-block eigenvalue    *)
(* per q point and one free structural coordinate:                         *)
(*   dyn.dynmats[q]  the non-translational eigenvalue of the block at q    *)
(*                   (q = 1 is the zone centre, python index 0);           *)
(*   dyn.coords      the free coordinate of the structure.                 *)
(* All numbers are integers.  The inputs the ensemble returns are chosen   *)
(* so that every division the code makes is exact (see GetStructPrecond).  *)
(* The q points other than the zone centre form one q-star.  The calls of   *)
(* the module-level functions on their own use blocks with two components.  *)
(***************************************************************************)
EXTENDS Integers, Sequences, FiniteSets, TLC

VARIABLES
    cfg,        \* the configuration attributes of the minimizer
    dyn,        \* self.dyn: dynamical matrix and structure
    old_dyn,    \* run(): local old_dyn, the copy taken at line 693
    ens,        \* self.ensemble: current_dyn, dyn_0 and the sample size at dyn_0
    hist,       \* __fe__, __fe_err__, __gc__, __gc_err__, __gw__, __gw_err__, __KL__
    converged,  \* self.__converged__
    prev_grad,  \* self.prev_grad (<<>> stands for None)
    min_step_struc, \* self.min_step_struc
    running,    \* run(): local running
    args,       \* run(): which hooks were passed
    pc,         \* position: "idle" outside init()/run(), else the point inside run()
    obs,        \* observations of the run (not program state)
    fn          \* a call of a module-level function: its arguments and result

vars == <<cfg, dyn, old_dyn, ens, hist, converged, prev_grad, min_step_struc,
          running, args, pc, obs, fn>>

\* the variables of the minimizer
minimizer == <<cfg, dyn, old_dyn, ens, hist, converged, prev_grad,
               min_step_struc, running, args, pc, obs>>

(***************************************************************************)
(* Bounds of the model.                                                    *)
(***************************************************************************)
NQ == 3          \* number of q points of the dynamical matrix
MaxHist == 3     \* iterations recorded between two init() calls
MaxCalls == 3    \* init()/run() calls in one behaviour

(***************************************************************************)
(* Program constants.                                                      *)
(***************************************************************************)
\* kong_liu_ratio = 0.5 and meaningful_factor = 0.1 (constructor defaults),
\* as fractions
KongLiuNum == 1
KongLiuDen == 2
MeaningfulNum == 1
MeaningfulDen == 10
\* lambda_a = 1 (self.min_step_dyn), self.eq_energy = 0
min_step_dyn == 1
\* lambda_w = 1, the value self.min_step_struc is built with
lambda_w == 1
eq_energy == 0
\* CC.Phonons.BOHR_TO_ANGSTROM**2 in the units of the model: the squared
\* frequencies of the model are 1 and 3, and 3 is the smallest unit that
\* makes 1/w^2 an integer
BOHR_TO_ANGSTROM2 == 3

(***************************************************************************)
(* Helpers.                                                                *)
(***************************************************************************)
Last(s) == s[Len(s)]

RECURSIVE SumSq(_)
SumSq(s) == IF s = <<>> THEN 0 ELSE Head(s) * Head(s) + SumSq(Tail(s))

\* np.sqrt on the perfect squares the model produces
Sqrt(x) == CHOOSE r \in 0..x : r * r = x

Max(S) == CHOOSE m \in S : \A x \in S : x <= m

Abs(x) == IF x < 0 THEN -x ELSE x

SeqRange(s) == {s[i] : i \in 1..Len(s)}

(***************************************************************************)
(* Collaborators (CellConstructor): symmetries and diagonalization.        *)
(***************************************************************************)
\* self.dyn.q_stars: the zone centre alone, the other q points together
StarOf(q) == IF q = 1 THEN {1} ELSE 2..NQ

RECURSIVE SumOver(_, _)
SumOver(f, S) ==
    IF S = {} THEN 0
    ELSE LET x == CHOOSE y \in S : TRUE IN f[x] + SumOver(f, S \ {x})

\* qe_sym.SymmetrizeFCQ(fcq, q_stars, asr): every block becomes the average of
\* its star.  In the one-mode blocks of the model the sum rule holds by
\* construction, so the asr mode changes no number.
SymmetrizeFCQ(fcq, asr) ==
    [q \in 1..Len(fcq) |->
        SumOver(fcq, StarOf(q) \cap (1..Len(fcq)))
            \div Cardinality(StarOf(q) \cap (1..Len(fcq)))]

\* qe_sym.ImposeSumRule(block, asr): acts on one block alone
ImposeSumRule(block, asr) == block

\* qe_sym.SymmetrizeVector on the free coordinate, which is symmetric
SymmetrizeVector(v) == v

\* qe_sym.QE_nsymq
QE_nsymq == 1

\* superdyn.DyagDinQ(0) with the translations removed: the frequencies of all
\* the q points, a negative eigenvalue giving a negative frequency
NonTransFreq2(d) == SeqRange(d.dynmats)

(***************************************************************************)
(* Pure functions of the module.                                           *)
(***************************************************************************)
\* A block of the arrays dyn_q and grad_q is the sequence of its components on
\* the eigenprojectors of the q point: the blocks of one q point commute, the
\* product of two blocks is the product of their components, and the
\* components of the matrix are the eigenvalues np.linalg.eigh returns.  At
\* the zone centre the matrix is real and so are the projectors; elsewhere the
\* projectors are complex and come in conjugate pairs: the conjugate of the
\* projector k is the projector Len + 1 - k.
BlockDot(x, y) == [k \in 1..Len(x) |-> x[k] * y[k]]

BlockAdd(x, y) == [k \in 1..Len(x) |-> x[k] + y[k]]

BlockScale(x, s) == [k \in 1..Len(x) |-> x[k] * s]

\* variant of Regularize: a negative eigenvalue replaced by its modulus
Regularize_abs(iq, eigvals) ==
    IF iq = 1
    THEN [k \in 1..Len(eigvals) |-> IF eigvals[k] < 0 THEN -eigvals[k] ELSE eigvals[k]]
    ELSE eigvals

\* PerformRootStep, lines 1169-1170: eigvals[eigvals < 0] = 0. at iq == 0
Regularize(iq, eigvals) ==
    IF iq = 1
    THEN [k \in 1..Len(eigvals) |-> IF eigvals[k] < 0 THEN 0 ELSE eigvals[k]]
    ELSE eigvals

\* PerformRootStep, lines 1173 and 1178:
\* np.einsum("a, ba, ca", vals, np.conj(eigvects), eigvects), the matrix
\* sum_a vals[a] conj(v[b,a]) v[c,a].  The matrix with the eigenvalues vals on
\* the eigenvectors is sum_a vals[a] v[b,a] conj(v[c,a]); the einsum is its
\* complex conjugate, which carries vals[a] on the conjugate projector.
einsum_conj(iq, vals) ==
    IF iq = 1 THEN vals
    ELSE [k \in 1..Len(vals) |-> vals[Len(vals) + 1 - k]]

\* variant of diagonalized: the root taken in every representation
diagonalized_always(rep) == TRUE

\* PerformRootStep, lines 1163 and 1189: the representations that go through
\* the eigenvalues
diagonalized(rep) == rep # "normal"

\* PerformRootStep, line 1138
ALLOWED_REPRESENTATION == {"normal", "root4", "sqrt", "root2"}

\* variant of algorithm_implemented: every tag taken as steepest descent
algorithm_any(minimization_algorithm) == TRUE

\* PerformRootStep, line 1183
algorithm_implemented(minimization_algorithm) == minimization_algorithm = "sdes"

\* variant of input_after: the array worked on is the input itself
input_after_aliased(input, written) == written

\* PerformRootStep, lines 1155-1160: new_dyn and new_grad are arrays of their
\* own, filled from dyn_q and grad_q, and eigh (line 1166) reads its argument;
\* input_after is what an input array holds once the array filled from it
\* holds written
input_after(input, written) == input

\* PerformRootStep, lines 1096-1199.  Returns [ok, val, dyn_q, grad_q]:
\* ok = FALSE is the ValueError, val the returned array, dyn_q and grad_q the
\* argument arrays as the call leaves them.
PerformRootStep(dyn_q, grad_q, step_size, root_representation, minimization_algorithm) ==
    LET rep == IF root_representation = "root2" THEN "sqrt" ELSE root_representation
        nq == Len(dyn_q)
        \* lines 1166-1170
        eigvals(iq) == Regularize(iq, dyn_q[iq])
        \* lines 1173-1174
        sqrt_dyn(iq) == einsum_conj(iq, [k \in 1..Len(dyn_q[iq]) |-> Sqrt(eigvals(iq)[k])])
        sqrt_grad(iq) == BlockAdd(BlockDot(sqrt_dyn(iq), grad_q[iq]),
                                  BlockDot(grad_q[iq], sqrt_dyn(iq)))
        \* lines 1177-1179
        root4_dyn(iq) ==
            einsum_conj(iq, [k \in 1..Len(dyn_q[iq]) |-> Sqrt(Sqrt(eigvals(iq)[k]))])
        root4_grad(iq) == BlockAdd(BlockDot(root4_dyn(iq), sqrt_grad(iq)),
                                   BlockDot(sqrt_grad(iq), root4_dyn(iq)))
        \* new_dyn and new_grad as the loop of lines 1163-1179 leaves them
        new_dyn(iq) == IF ~diagonalized(rep) THEN dyn_q[iq]
                       ELSE IF rep = "root4" THEN root4_dyn(iq) ELSE sqrt_dyn(iq)
        new_grad(iq) == IF ~diagonalized(rep) THEN grad_q[iq]
                        ELSE IF rep = "root4" THEN root4_grad(iq) ELSE sqrt_grad(iq)
        \* line 1184
        stepped(iq) == BlockAdd(new_dyn(iq), BlockScale(new_grad(iq), - step_size))
        \* lines 1189-1196
        squared(iq) == BlockDot(stepped(iq), stepped(iq))
        back(iq) ==
            IF ~diagonalized(rep) THEN stepped(iq)
            ELSE IF rep = "root4" THEN BlockDot(squared(iq), squared(iq))
            ELSE squared(iq)
        result == [iq \in 1..nq |-> back(iq)]
        failure == [ok |-> FALSE, val |-> <<>>, dyn_q |-> dyn_q, grad_q |-> grad_q]
    IN  IF root_representation \notin ALLOWED_REPRESENTATION
        THEN failure
        ELSE IF nq # Len(grad_q)
        THEN failure
        ELSE IF ~algorithm_implemented(minimization_algorithm)
        THEN [failure EXCEPT
                !.dyn_q = input_after(dyn_q, [iq \in 1..nq |-> new_dyn(iq)]),
                !.grad_q = input_after(grad_q, [iq \in 1..nq |-> new_grad(iq)])]
        ELSE [ok |-> TRUE, val |-> result,
              dyn_q |-> input_after(dyn_q, result),
              grad_q |-> input_after(grad_q, [iq \in 1..nq |-> new_grad(iq)])]

\* The structure of the model crystal: two atoms of mass 1 on a line.  A
\* vector of the structure has one component per atom; the free coordinate u
\* displaces the atoms by (u, -u), and the ensemble's force f on the free
\* coordinate is the force (f, -f) on the atoms.
get_masses_array == <<1, 1>>

\* current_dyn.DyagDinQ(0): the modes of the zone centre, the translation and
\* the mode of the free coordinate.  w[c] stands for the frequency by its
\* signed square, the eigenvalue (the frequency of a negative eigenvalue is
\* negative); pols[c] is the polarization vector times sqrt(2).
DyagDinQ(current_dyn) ==
    [w |-> <<0, current_dyn.dynmats[1]>>, pols |-> <<<<1, 1>>, <<1, -1>>>>]

\* the squared length of the vectors DyagDinQ returns
PolNorm2(current_dyn) == SumSq(DyagDinQ(current_dyn).pols[1])

\* CC.Methods.get_translations(pols, mass): the modes that displace every atom
\* by the same amount
get_translations(pols, mass) ==
    [c \in 1..Len(pols) |->
        \A i, j \in 1..Len(mass) :
            pols[c][i] * Sqrt(mass[j]) = pols[c][j] * Sqrt(mass[i])]

\* variant of wm2: the eigenvalue in the place of the squared frequency
wm2_signed(w) == BOHR_TO_ANGSTROM2 \div w

\* GetStructPrecond, lines 1386 and 1390: 1 / w**2, in the unit of the result
wm2(w) == BOHR_TO_ANGSTROM2 \div Abs(w)

\* GetStructPrecond, lines 1337-1390: the matrix
\* sum over the modes c that are not translations of
\* _msi_[a] _msi_[b] wm2[c] pols[a,c] pols[b,c].  With the vectors of DyagDinQ
\* it comes out PolNorm2 times the preconditioner.
GetStructPrecond(current_dyn) ==
    LET d == DyagDinQ(current_dyn)
        mass == get_masses_array
        _msi_ == [a \in 1..Len(mass) |-> 1 \div Sqrt(mass[a])]
        not_trans == {c \in 1..Len(d.w) : ~get_translations(d.pols, mass)[c]}
    IN  [a \in 1..Len(mass) |-> [b \in 1..Len(mass) |->
            SumOver([c \in 1..Len(d.w) |->
                        IF c \in not_trans
                        THEN _msi_[a] * _msi_[b] * wm2(d.w[c])
                                 * d.pols[c][a] * d.pols[c][b]
                        ELSE 0],
                    not_trans)]]

\* struct_precond.dot(v), line 253
MatDot(m, v) == [a \in 1..Len(m) |-> SumOver([b \in 1..Len(v) |-> m[a][b] * v[b]], 1..Len(v))]

\* GetBestWykoffStep, lines 1393-1419
GetBestWykoffStep(current_dyn) ==
    BOHR_TO_ANGSTROM2 \div Max({current_dyn.dynmats[1]})

(***************************************************************************)
(* Configuration and inputs.                                               *)
(***************************************************************************)
\* __init__, lines 87-146
DefaultCfg ==
    [root_representation |-> "normal", minimization_algorithm |-> "sdes",
     gradi_op |-> "gc", max_ka |-> -1, minim_struct |-> TRUE,
     precond_wyck |-> TRUE, precond_dyn |-> TRUE, neglect_symmetries |-> FALSE]

\* the attribute settings made between construction and the first call
Configs ==
    {[DefaultCfg EXCEPT !.gradi_op = g, !.max_ka = k, !.minim_struct = m] :
        g \in {"gc", "gw", "all"}, k \in {-1, 1, 2, 3}, m \in BOOLEAN}
    \cup {[DefaultCfg EXCEPT !.gradi_op = "none"],
          [DefaultCfg EXCEPT !.minimization_algorithm = "cgrf"],
          [DefaultCfg EXCEPT !.neglect_symmetries = TRUE],
          [DefaultCfg EXCEPT !.precond_wyck = FALSE, !.max_ka = 2],
          [DefaultCfg EXCEPT !.root_representation = "sqrt", !.minim_struct = FALSE]}

\* the hooks passed to run(): pre, post, and a gradient hook that locks the
\* structure (sets the structure gradient to zero in place)
HookArgs ==
    {[pre |-> FALSE, post |-> FALSE, grad |-> FALSE],
     [pre |-> TRUE, post |-> TRUE, grad |-> FALSE],
     [pre |-> TRUE, post |-> TRUE, grad |-> TRUE]}

\* what the ensemble answers in one iteration: get_preconditioned_gradient
\* (gradient 2 at q point k, error e at every q) and get_average_forces
\* (force f, error fe)
EnsAnswer(k, e, f, fe) ==
    [dyn_grad |-> [q \in 1..NQ |-> IF q = k THEN 2 ELSE 0],
     err |-> [q \in 1..NQ |-> e], forces |-> f, forces_err |-> fe]

EnsAnswers ==
    {EnsAnswer(0, 1, 0, 1), EnsAnswer(0, 1, 1, 1), EnsAnswer(1, 1, 0, 1),
     EnsAnswer(NQ, 0, -1, 0), EnsAnswer(0, 0, 0, 0)}

\* self.ensemble.N
EnsN == 4

\* the effective sample size the ensemble has at its own matrix dyn_0: one
\* configuration of the N is lost to begin with
EnsBase == EnsN - 1

\* how far the weights are from those the ensemble was drawn with
Dist(d, d0) ==
    SumOver([q \in 1..Len(d.dynmats) |-> Abs(d.dynmats[q] - d0.dynmats[q]) \div 2],
            1..Len(d.dynmats))
    + Abs(d.coords - d0.coords)

\* ensemble.get_effective_sample_size(): a function of the weights alone,
\* falling with the distance of current_dyn from dyn_0
get_effective_sample_size(e) ==
    Max({0, e.base - Dist(e.current_dyn, e.dyn_0)})

\* ensemble.get_free_energy(return_error = True): a function of the weights
ens_get_free_energy(e) ==
    [fe |-> SumOver(e.current_dyn.dynmats, 1..Len(e.current_dyn.dynmats))
            + e.current_dyn.coords * e.current_dyn.coords,
     err |-> 1]

\* the matrix the minimizer is built with (self.dyn, a copy of the ensemble's
\* matrix): the same eigenvalue at every q point, or a matrix that does not
\* have the symmetry of the q-star
InitDyns ==
    {[dynmats |-> [q \in 1..NQ |-> v], coords |-> 0] : v \in {1, 3}}
    \cup {[dynmats |-> [q \in 1..NQ |-> IF q = NQ THEN 1 ELSE 3], coords |-> 0]}

\* the matrices whose eigenvalues have an integer root
UnitDyns == {[dynmats |-> [q \in 1..NQ |-> 1], coords |-> 0]}

EmptyHist ==
    [fe |-> <<>>, fe_err |-> <<>>, gc |-> <<>>, gc_err |-> <<>>,
     gw |-> <<>>, gw_err |-> <<>>, KL |-> <<>>]

(***************************************************************************)
(* Methods of the minimizer.                                               *)
(***************************************************************************)
\* update(), lines 513-527: ensemble.update_weights(self.dyn, current_T)
update(d, e) == [e EXCEPT !.current_dyn = d]

\* get_free_energy(True), lines 530-568: (value, error) of the ensemble over
\* the supercell size, which is 1
get_free_energy(e) == ens_get_free_energy(e)

\* check_imaginary_frequencies, lines 855-894
check_imaginary_frequencies(d) == \E w2 \in NonTransFreq2(d) : w2 < 0

\* variant of gw_cond: a metric equal to its threshold converges
gw_cond_weak(h) == Last(h.gw) * MeaningfulDen <= Last(h.gw_err) * MeaningfulNum

\* check_stop, lines 912-919
gc_cond(h) == Last(h.gc) * MeaningfulDen < Last(h.gc_err) * MeaningfulNum
gw_cond(h) == Last(h.gw) * MeaningfulDen < Last(h.gw_err) * MeaningfulNum

\* variant of total_cond: "all" satisfied by either gradient
total_cond_either(op, h) ==
    IF op = "gc" THEN gc_cond(h)
    ELSE IF op = "gw" THEN gw_cond(h)
    ELSE gc_cond(h) \/ gw_cond(h)

\* check_stop, lines 930-935
total_cond(op, h) ==
    IF op = "gc" THEN gc_cond(h)
    ELSE IF op = "gw" THEN gw_cond(h)
    ELSE gc_cond(h) /\ gw_cond(h)

\* variant of kl_cond: a ratio equal to the threshold stops the run
kl_cond_weak(kl, n) == kl * KongLiuDen <= KongLiuNum * n

\* check_stop, line 947: kl / float(N) < kong_liu_ratio
kl_cond(kl, n) == kl * KongLiuDen < KongLiuNum * n

\* variant of check_stop: the sampling check made before the gradient check
check_stop_sampling_first(c, h, d, e, conv) ==
    IF c.gradi_op \notin {"gc", "gw", "all"}
    THEN [raised |-> TRUE, stop |-> FALSE, converged |-> conv, why |-> "raised"]
    ELSE IF kl_cond(get_effective_sample_size(e), EnsN)
    THEN [raised |-> FALSE, stop |-> TRUE, converged |-> FALSE, why |-> "sampling"]
    ELSE IF total_cond(c.gradi_op, h)
    THEN [raised |-> FALSE, stop |-> TRUE, converged |-> TRUE, why |-> "converged"]
    ELSE IF check_imaginary_frequencies(d)
    THEN [raised |-> FALSE, stop |-> TRUE, converged |-> conv, why |-> "imaginary"]
    ELSE [raised |-> FALSE, stop |-> FALSE, converged |-> conv, why |-> "none"]

\* check_stop, lines 897-961.  Returns [raised, stop, converged, why]:
\* the ValueError, the returned value, the new __converged__, and the branch.
check_stop(c, h, d, e, conv) ==
    IF c.gradi_op \notin {"gc", "gw", "all"}
    THEN [raised |-> TRUE, stop |-> FALSE, converged |-> conv, why |-> "raised"]
    ELSE IF total_cond(c.gradi_op, h)
    THEN [raised |-> FALSE, stop |-> TRUE, converged |-> TRUE, why |-> "converged"]
    ELSE IF kl_cond(get_effective_sample_size(e), EnsN)
    THEN [raised |-> FALSE, stop |-> TRUE, converged |-> FALSE, why |-> "sampling"]
    ELSE IF check_imaginary_frequencies(d)
    THEN [raised |-> FALSE, stop |-> TRUE, converged |-> conv, why |-> "imaginary"]
    ELSE [raised |-> FALSE, stop |-> FALSE, converged |-> conv, why |-> "none"]

\* variants of max_ka_reached: the budget reached one step early, and the
\* sign of max_ka not looked at
max_ka_reached_early(h, max_ka) == Len(h.fe) >= max_ka /\ max_ka > 0

max_ka_reached_unsigned(h, max_ka) == Len(h.fe) > max_ka

\* variant of max_ka_reached: the iterations counted on the gradient history
max_ka_reached_gc(h, max_ka) == Len(h.gc) > max_ka /\ max_ka > 0

\* run(), line 752
max_ka_reached(h, max_ka) == Len(h.fe) > max_ka /\ max_ka > 0

\* is_converged, lines 501-511
is_converged(conv) == conv

\* variant of flag_at_start: the flag of the previous run kept
flag_at_start_kept(conv) == conv

\* run(), line 680: the convergence flag as the call starts
flag_at_start(conv) == FALSE

\* run(), line 693: old_dyn = self.dyn.Copy()
Copy(d) == d

\* variant of record_step: the latest free energy overwritten
record_step_overwrite(h, f, kl) ==
    [h EXCEPT !.fe = IF @ = <<>> THEN <<f.fe - eq_energy>>
                     ELSE [@ EXCEPT ![Len(@)] = f.fe - eq_energy],
              !.fe_err = Append(@, f.err),
              !.KL = Append(@, kl)]

\* run(), lines 713-723: the free energy, its error and the effective sample
\* size are appended to the history
record_step(h, f, kl) ==
    [h EXCEPT !.fe = Append(@, f.fe - eq_energy),
              !.fe_err = Append(@, f.err),
              !.KL = Append(@, kl)]

\* variants of restored: the restore left out, and made whatever the flag
restored_never(conv, old, cur) == cur

restored_always(conv, old, cur) == old

\* run(), lines 765-768: the matrix run() leaves in self.dyn
restored(conv, old, cur) == IF ~is_converged(conv) THEN old ELSE cur

\* variant of exit_update: the weights updated before the restore
exit_update_early(conv, after, before, e) ==
    IF ~is_converged(conv) THEN update(before, e) ELSE e

\* run(), lines 765-771: the ensemble as run() leaves it; after is the matrix
\* self.dyn names once line 768 has run, before the one it named until then
exit_update(conv, after, before, e) ==
    IF ~is_converged(conv) THEN update(after, e) ELSE e

\* minimization_step, line 296: the arrays handed to PerformRootStep; a block
\* of the crystal of the state machine has one component
np_array(dynmats) == [iq \in 1..Len(dynmats) |-> <<dynmats[iq]>>]

\* minimization_step, lines 186-203: the gradient of the matrix and its error
step_dyn_grad(c, a) ==
    IF ~c.neglect_symmetries
    THEN SymmetrizeFCQ(a.dyn_grad, "custom")
    ELSE [q \in 1..Len(a.dyn_grad) |-> ImposeSumRule(a.dyn_grad[q], "custom")]

step_err(c, a) ==
    IF ~c.neglect_symmetries
    THEN SymmetrizeFCQ(a.err, "crystal")
    ELSE [q \in 1..Len(a.err) |-> ImposeSumRule(a.err[q], "custom")]

\* minimization_step, lines 244 and 254: the force on the free coordinate as
\* the flat vector of the forces on the atoms, and back
reshape_flat(f) == <<f, -f>>

reshape_back(v) == v[1]

\* minimization_step, lines 242-261: the structure gradient on the free
\* coordinate, as it is handed to the gradient hook
step_struct_grad(c, e, a) ==
    LET struct_grad_reshaped == [i \in 1..2 |-> - reshape_flat(a.forces)[i]]
        struct_grad_precond ==
            [i \in 1..2 |->
                MatDot(GetStructPrecond(e.current_dyn), struct_grad_reshaped)[i]
                    \div PolNorm2(e.current_dyn)]
        g1 == IF c.precond_wyck
              THEN reshape_back(struct_grad_precond)
              ELSE a.forces
    IN  IF ~c.neglect_symmetries THEN SymmetrizeVector(g1) ELSE g1

\* variant of structure_minimized: the structure stepped whatever the setting
structure_minimized_always(c) == TRUE

\* minimization_step, line 239: if self.minim_struct
structure_minimized(c) == c.minim_struct

\* variant of symmetry_calls: the error symmetrized in the mode of the gradient
symmetry_calls_one_mode(c, nq) ==
    IF ~c.neglect_symmetries
    THEN <<[f |-> "SymmetrizeFCQ", on |-> "dyn_grad", q |-> 0, asr |-> "custom"],
           [f |-> "SymmetrizeFCQ", on |-> "err", q |-> 0, asr |-> "custom"]>>
    ELSE <<>>

\* minimization_step, lines 197-203 and 258-261: the calls made to the
\* symmetry collaborator, in their order (q = 0 stands for all the q points)
symmetry_calls(c, nq) ==
    (IF ~c.neglect_symmetries
     THEN <<[f |-> "SymmetrizeFCQ", on |-> "dyn_grad", q |-> 0, asr |-> "custom"],
            [f |-> "SymmetrizeFCQ", on |-> "err", q |-> 0, asr |-> "crystal"]>>
     ELSE [k \in 1..(2 * nq) |->
             [f |-> "ImposeSumRule",
              on |-> IF k % 2 = 1 THEN "dyn_grad" ELSE "err",
              q |-> (k + 1) \div 2, asr |-> "custom"]])
    \o (IF structure_minimized(c) /\ ~c.neglect_symmetries
        THEN <<[f |-> "SymmetrizeVector", on |-> "struct_grad", q |-> 0, asr |-> ""],
               [f |-> "SymmetrizeVector", on |-> "struct_grad_err", q |-> 0, asr |-> ""]>>
        ELSE <<>>)

\* update(), docstring lines 519-522: the ensemble holds the matrix of the
\* minimizer
in_sync(d, e) == e.current_dyn = d

\* the gradient hook of the model, which works in place and returns nothing:
\* it locks the structure and the block of the matrix at the last q point,
\* setting their gradients to zero.  The arrays are returned as the call
\* leaves them.
custom_function_gradient(dyn_grad, struct_grad) ==
    [dyn_grad |-> [dyn_grad EXCEPT ![Len(dyn_grad)] = 0], struct_grad |-> 0]

\* variant of apply_hook: the hook works on copies, its changes are lost
apply_hook_on_copies(hook, dyn_grad, struct_grad) ==
    [dyn_grad |-> dyn_grad, struct_grad |-> struct_grad]

\* minimization_step, lines 264-265: the two gradients after the hook, if one
\* was given
apply_hook(hook, dyn_grad, struct_grad) ==
    IF hook THEN custom_function_gradient(dyn_grad, struct_grad)
    ELSE [dyn_grad |-> dyn_grad, struct_grad |-> struct_grad]

\* minimization_step, lines 161-311, up to the call of update().  Returns
\* [raised, dyn, hist, dyn_grad, hook_calls, forces_asked, sym_calls]:
\* raised = TRUE is an exception, with the state as the exception leaves it;
\* hook_calls counts the calls of the gradient hook, forces_asked tells
\* whether the ensemble was asked for the average forces, sym_calls lists the
\* calls to the symmetry collaborator.
minimization_step(c, d, e, h, mss, a, hook) ==
    LET \* line 283: np.zeros(N_atoms, 3) is a TypeError, raised while the
        \* arguments of the hook are built
        hook_raises == ~structure_minimized(c) /\ hook
        grads == IF structure_minimized(c)
                 THEN apply_hook(hook, step_dyn_grad(c, a), step_struct_grad(c, e, a))
                 ELSE [dyn_grad |-> step_dyn_grad(c, a), struct_grad |-> 0]
        dyn_grad == grads.dyn_grad
        err == step_err(c, a)
        struct_grad == grads.struct_grad
        struct_grad_err ==
            IF ~c.neglect_symmetries THEN SymmetrizeVector(a.forces_err)
            ELSE a.forces_err
        \* lines 272-287; the norms of the structure vectors are those of
        \* their component on the free coordinate
        h1 == IF structure_minimized(c)
              THEN [h EXCEPT
                      !.gw = Append(@, Sqrt(struct_grad * struct_grad)),
                      !.gw_err = Append(@, Sqrt((struct_grad_err * struct_grad_err)
                                                    \div QE_nsymq))]
              ELSE [h EXCEPT !.gw = Append(@, 0), !.gw_err = Append(@, 0)]
        d1 == IF structure_minimized(c)
              THEN [d EXCEPT !.coords = @ - mss * struct_grad]
              ELSE d
        \* lines 292-293
        h2 == [h1 EXCEPT !.gc = Append(@, SumSq(dyn_grad)),
                         !.gc_err = Append(@, SumSq(err))]
        \* lines 296-302
        new_dyn == PerformRootStep(np_array(d.dynmats), np_array(dyn_grad),
                                   min_step_dyn, c.root_representation,
                                   c.minimization_algorithm)
        hook_calls == IF hook /\ structure_minimized(c) THEN 1 ELSE 0
        \* line 242: get_average_forces
        forces_asked == structure_minimized(c)
        sym_calls == symmetry_calls(c, Len(d.dynmats))
    IN  IF hook_raises
        THEN [raised |-> TRUE, dyn |-> d, hist |-> h,
              dyn_grad |-> step_dyn_grad(c, a), hook_calls |-> 0,
              forces_asked |-> forces_asked, sym_calls |-> sym_calls]
        ELSE IF ~new_dyn.ok
        THEN [raised |-> TRUE, dyn |-> d1, hist |-> h2, dyn_grad |-> dyn_grad,
              hook_calls |-> hook_calls,
              forces_asked |-> forces_asked, sym_calls |-> sym_calls]
        ELSE [raised |-> FALSE,
              dyn |-> [d1 EXCEPT !.dynmats =
                         [iq \in 1..Len(d.dynmats) |-> new_dyn.val[iq][1]]],
              hist |-> h2, dyn_grad |-> dyn_grad, hook_calls |-> hook_calls,
              forces_asked |-> forces_asked, sym_calls |-> sym_calls]

(***************************************************************************)
(* The state machine.                                                      *)
(***************************************************************************)
\* what is observed of the calls: call = the last call made and how it ended,
\* prev_call = the one before it, and for the current run() the number of
\* iterations, hook calls and update_weights calls, the matrix and the history
\* at the start of the last iteration, what the ensemble answered in its step,
\* the matrix the step produced, and what ended it; forces_asked = the ensemble
\* was asked for the average forces, sym_calls = the symmetry calls of the last
\* step, stale = the ensemble was queried while it held another matrix than
\* the minimizer, before_init = the state a rejected init() was called in
NoObs ==
    [calls |-> 0, call |-> "none", prev_call |-> "none", nIter |-> 0,
     preCalls |-> 0, postCalls |-> 0, updates |-> 0, stop |-> "none",
     iter_start |-> <<>>, step_dyn |-> <<>>,
     gradCalls |-> 0, iter_hist |-> EmptyHist, answer |-> EnsAnswer(0, 0, 0, 0),
     forces_asked |-> FALSE, sym_calls |-> <<>>, stale |-> FALSE,
     before_init |-> <<>>]

\* no call of a module-level function
NoCall ==
    [op |-> "none", dyn_q |-> <<>>, grad_q |-> <<>>, step_size |-> 0,
     root_representation |-> "", minimization_algorithm |-> "",
     current_dyn |-> <<>>, in_dyn |-> <<>>, in_grad |-> <<>>,
     done |-> FALSE, ret |-> <<>>]

Init ==
    /\ cfg \in Configs
    /\ dyn \in InitDyns
    /\ cfg.root_representation # "normal" => dyn \in UnitDyns
    /\ old_dyn = dyn
    /\ ens = [current_dyn |-> dyn, dyn_0 |-> dyn, base |-> EnsBase]
    /\ hist = EmptyHist
    /\ converged = FALSE
    /\ prev_grad = <<>>
    /\ min_step_struc = lambda_w
    /\ running = FALSE
    /\ args = [pre |-> FALSE, post |-> FALSE, grad |-> FALSE]
    /\ pc = "idle"
    /\ obs = [NoObs EXCEPT !.iter_start = dyn, !.step_dyn = dyn]
    /\ fn = NoCall

\* init(), lines 570-638
InitCall ==
    /\ pc = "idle"
    /\ obs.calls < MaxCalls
    /\ \E a \in EnsAnswers :
        LET \* lines 580-584
            d1 == [dyn EXCEPT !.dynmats = SymmetrizeFCQ(dyn.dynmats, "custom")]
            \* lines 589-601
            f == get_free_energy(ens)
            h1 == [EmptyHist EXCEPT !.fe = <<f.fe - eq_energy>>, !.fe_err = <<f.err>>]
            \* lines 610-611
            raises == cfg.root_representation # "normal" /\ cfg.precond_dyn
        IN  /\ dyn' = d1
            /\ converged' = FALSE
            /\ prev_grad' = a.dyn_grad
            /\ hist' = IF raises THEN h1 ELSE [h1 EXCEPT !.KL = <<get_effective_sample_size(ens)>>]
            /\ min_step_struc' =
                 IF ~raises /\ ~cfg.precond_wyck
                 THEN min_step_struc * GetBestWykoffStep(d1)
                 ELSE min_step_struc
            /\ obs' = [obs EXCEPT !.calls = @ + 1, !.prev_call = obs.call,
                                  !.call = IF raises THEN "init_raised" ELSE "init",
                                  !.stale = @ \/ ~in_sync(d1, ens),
                                  !.before_init =
                                     IF raises
                                     THEN [dyn |-> dyn, hist |-> hist,
                                           prev_grad |-> prev_grad,
                                           min_step_struc |-> min_step_struc]
                                     ELSE <<>>]
    /\ UNCHANGED <<cfg, old_dyn, ens, running, args, pc, fn>>

\* run(), lines 641-684: the call, up to the loop
RunCall ==
    /\ pc = "idle"
    /\ obs.calls < MaxCalls
    /\ args' \in HookArgs
    /\ converged' = flag_at_start(converged)
    /\ running' = TRUE
    /\ pc' = "loop"
    /\ obs' = [obs EXCEPT !.calls = @ + 1, !.prev_call = obs.call, !.call = "run",
                          !.nIter = 0, !.preCalls = 0, !.postCalls = 0,
                          !.updates = 0, !.stop = "none", !.gradCalls = 0]
    /\ UNCHANGED <<cfg, dyn, old_dyn, ens, hist, prev_grad, min_step_struc, fn>>

\* run(), lines 687-693: the top of an iteration
IterBegin ==
    /\ pc = "loop"
    /\ Len(hist.gc) < MaxHist
    /\ old_dyn' = Copy(dyn)
    /\ pc' = "step"
    /\ obs' = [obs EXCEPT !.nIter = @ + 1, !.iter_start = dyn, !.stop = "none",
                          !.iter_hist = hist,
                          !.preCalls = IF args.pre THEN @ + 1 ELSE @]
    /\ UNCHANGED <<cfg, dyn, ens, hist, converged, prev_grad, min_step_struc,
                   running, args, fn>>

\* run(), line 702: minimization_step(custom_function_gradient), with its
\* update() (line 308) and prev_grad (line 311)
MinimizationStep ==
    /\ pc = "step"
    /\ \E a \in EnsAnswers :
        LET r == minimization_step(cfg, dyn, ens, hist, min_step_struc, a, args.grad)
        IN  /\ dyn' = r.dyn
            /\ hist' = r.hist
            /\ IF r.raised
               THEN /\ pc' = "idle"
                    /\ obs' = [obs EXCEPT !.call = "run_raised", !.answer = a,
                                          !.gradCalls = @ + r.hook_calls,
                                          !.forces_asked = @ \/ r.forces_asked,
                                          !.sym_calls = r.sym_calls,
                                          !.stale = @ \/ ~in_sync(dyn, ens)]
                    /\ UNCHANGED <<ens, prev_grad>>
               ELSE /\ pc' = "check"
                    /\ ens' = update(r.dyn, ens)
                    /\ prev_grad' = r.dyn_grad
                    /\ obs' = [obs EXCEPT !.updates = @ + 1, !.step_dyn = r.dyn,
                                          !.answer = a,
                                          !.gradCalls = @ + r.hook_calls,
                                          !.forces_asked = @ \/ r.forces_asked,
                                          !.sym_calls = r.sym_calls,
                                          !.stale = @ \/ ~in_sync(dyn, ens)]
    /\ UNCHANGED <<cfg, old_dyn, converged, min_step_struc, running, args, fn>>

\* run(), lines 708-754: the imaginary-frequency break, the history, the
\* stopping criteria and the step budget
IterCheck ==
    /\ pc = "check"
    /\ IF check_imaginary_frequencies(dyn)
       THEN /\ pc' = "exit"
            /\ obs' = [obs EXCEPT !.stop = "imaginary"]
            /\ UNCHANGED <<hist, converged, running>>
       ELSE LET h1 == record_step(hist, get_free_energy(ens),
                                  get_effective_sample_size(ens))
                cs == check_stop(cfg, h1, dyn, ens, converged)
                budget == max_ka_reached(h1, cfg.max_ka)
            IN  /\ hist' = h1
                /\ converged' = cs.converged
                /\ IF cs.raised
                   THEN /\ pc' = "idle"
                        /\ obs' = [obs EXCEPT !.call = "run_raised",
                                              !.stale = @ \/ ~in_sync(dyn, ens)]
                        /\ UNCHANGED running
                   ELSE /\ pc' = "post"
                        /\ running' = (~cs.stop /\ ~budget)
                        /\ obs' = [obs EXCEPT !.stale = @ \/ ~in_sync(dyn, ens),
                                              !.stop =
                                     IF cs.stop THEN cs.why
                                     ELSE IF budget THEN "maxsteps" ELSE "none"]
    /\ UNCHANGED <<cfg, dyn, old_dyn, ens, prev_grad, min_step_struc, args, fn>>

\* run(), lines 756-761: the post hook and the loop test
PostHook ==
    /\ pc = "post"
    /\ obs' = [obs EXCEPT !.postCalls = IF args.post THEN @ + 1 ELSE @]
    /\ pc' = IF running THEN "loop" ELSE "exit"
    /\ UNCHANGED <<cfg, dyn, old_dyn, ens, hist, converged, prev_grad,
                   min_step_struc, running, args, fn>>

\* run(), lines 763-772: the restore and the return
RunExit ==
    /\ pc = "exit"
    /\ dyn' = restored(converged, old_dyn, dyn)
    /\ ens' = exit_update(converged, dyn', dyn, ens)
    /\ obs' = [obs EXCEPT !.call = "run_returned",
                          !.updates = IF ~is_converged(converged) THEN @ + 1 ELSE @]
    /\ pc' = "idle"
    /\ UNCHANGED <<cfg, old_dyn, hist, converged, prev_grad, min_step_struc,
                   running, args, fn>>

Next ==
    \/ InitCall
    \/ RunCall
    \/ IterBegin
    \/ MinimizationStep
    \/ IterCheck
    \/ PostHook
    \/ RunExit

Spec == Init /\ [][Next]_vars

(***************************************************************************)
(* The module-level functions, called on their own.                        *)
(***************************************************************************)
\* the blocks of the arguments: at the zone centre a real block, which may
\* have a negative eigenvalue; elsewhere a Hermitian block with complex
\* eigenvectors and eigenvalues that are not negative.  The eigenvalues are
\* fourth powers, so that every root is an integer.
ZoneBlocks == {<<a, b>> : a \in {-1, 1, 16}, b \in {0, 16}}

OtherBlocks == {<<a, b>> : a \in {1, 16}, b \in {0, 1}}

GradBlocks == {<<0, 0>>, <<1, 0>>, <<-1, 1>>}

DynArrays ==
    {[iq \in 1..NQ |-> IF iq = 1 THEN z ELSE o] : z \in ZoneBlocks, o \in OtherBlocks}

\* gradients on all the q points, and one gradient that lacks the last q point
GradArrays ==
    {[iq \in 1..NQ |-> IF iq = 1 THEN g ELSE h] : g, h \in GradBlocks}
    \cup {[iq \in 1..(NQ - 1) |-> <<0, 0>>]}

StepSizes == {0, 1}

Representations == ALLOWED_REPRESENTATION \cup {"root3"}

Algorithms == {"sdes", "cgrf"}

\* the matrices handed to GetStructPrecond: the eigenvalue of the mode of the
\* free coordinate, of either sign
PrecondDyns == {[dynmats |-> [q \in 1..NQ |-> v], coords |-> 0] : v \in {-3, -1, 1, 3}}

InitPure ==
    /\ cfg = DefaultCfg
    /\ dyn = [dynmats |-> [q \in 1..NQ |-> 1], coords |-> 0]
    /\ old_dyn = dyn
    /\ ens = [current_dyn |-> dyn, dyn_0 |-> dyn, base |-> EnsBase]
    /\ hist = EmptyHist
    /\ converged = FALSE
    /\ prev_grad = <<>>
    /\ min_step_struc = 1
    /\ running = FALSE
    /\ args = [pre |-> FALSE, post |-> FALSE, grad |-> FALSE]
    /\ pc = "idle"
    /\ obs = [NoObs EXCEPT !.iter_start = dyn, !.step_dyn = dyn]
    /\ \/ \E d \in DynArrays, g \in GradArrays, s \in StepSizes,
             r \in Representations, m \in Algorithms :
             fn = [NoCall EXCEPT !.op = "PerformRootStep", !.dyn_q = d, !.grad_q = g,
                                 !.step_size = s, !.root_representation = r,
                                 !.minimization_algorithm = m,
                                 !.in_dyn = d, !.in_grad = g]
       \/ \E d \in PrecondDyns :
             fn = [NoCall EXCEPT !.op = "GetStructPrecond", !.current_dyn = d]

\* new_dyn = PerformRootStep(dyn_q, grad_q, step_size, ...)
CallPerformRootStep ==
    /\ fn.op = "PerformRootStep" /\ ~fn.done
    /\ LET r == PerformRootStep(fn.dyn_q, fn.grad_q, fn.step_size,
                                fn.root_representation, fn.minimization_algorithm)
       IN  fn' = [fn EXCEPT !.done = TRUE, !.ret = [ok |-> r.ok, val |-> r.val],
                            !.dyn_q = r.dyn_q, !.grad_q = r.grad_q]
    /\ UNCHANGED minimizer

\* struct_precond = GetStructPrecond(current_dyn)
CallGetStructPrecond ==
    /\ fn.op = "GetStructPrecond" /\ ~fn.done
    /\ fn' = [fn EXCEPT !.done = TRUE, !.ret = GetStructPrecond(fn.current_dyn)]
    /\ UNCHANGED minimizer

NextPure ==
    \/ CallPerformRootStep
    \/ CallGetStructPrecond

SpecPure == InitPure /\ [][NextPure]_vars

(***************************************************************************)
(* Properties.                                                             *)
(***************************************************************************)
Returned == pc = "idle" /\ obs.call = "run_returned"

ZeroGrad == [q \in 1..NQ |-> 0]

IsPrefix(s, t) == Len(s) <= Len(t) /\ \A i \in 1..Len(s) : s[i] = t[i]

HistFields == {"fe", "fe_err", "gc", "gc_err", "gw", "gw_err", "KL"}

\* C1: whenever run() returns without convergence, the matrix and the
\* structure of the minimizer are those held at the start of the last executed
\* iteration; the return follows an imaginary-frequency, sampling or
\* step-budget stop, and none of these stops ends run() with an exception.
C1_RestoredOnAbort ==
    /\ (Returned /\ ~is_converged(converged)) =>
          /\ dyn = obs.iter_start
          /\ obs.stop \in {"imaginary", "sampling", "maxsteps"}
    /\ obs.call = "run_raised" => obs.stop = "none"

\* a sampling stop after a step that changed the matrix
C1_Witness ==
    /\ Returned /\ ~converged /\ obs.stop = "sampling"
    /\ prev_grad # ZeroGrad /\ obs.step_dyn # dyn

\* C2: when run() returns without convergence, the last update_weights went
\* out after the restore with the restored matrix: the ensemble holds the
\* matrix the minimizer holds, one update after those of the iterations.
C2_WeightsFollowRestore ==
    (Returned /\ ~is_converged(converged)) =>
        /\ ens.current_dyn = dyn
        /\ ens.current_dyn = obs.iter_start
        /\ obs.updates = obs.nIter + 1

\* an imaginary-frequency stop: the ensemble was at the stepped matrix
C2_Witness ==
    /\ Returned /\ ~converged /\ obs.stop = "imaginary"
    /\ ens.current_dyn = dyn /\ obs.step_dyn # dyn

\* C3: when run() ends converged, the minimizer holds the matrix and the
\* structure that the step of the final iteration produced, and the ensemble
\* got no update after that step.
C3_ConvergedStateKept ==
    (Returned /\ is_converged(converged)) =>
        /\ dyn = obs.step_dyn
        /\ ens.current_dyn = obs.step_dyn
        /\ obs.updates = obs.nIter

\* a converged run whose last iteration moved the structure
C3_Witness ==
    /\ Returned /\ converged
    /\ dyn # obs.iter_start /\ dyn = obs.step_dyn

\* the convergence condition of check_stop written out on the latest entries
\* of the history
GcHolds == Last(hist.gc) * MeaningfulDen < Last(hist.gc_err) * MeaningfulNum

GwHolds == Last(hist.gw) * MeaningfulDen < Last(hist.gw_err) * MeaningfulNum

ConditionHolds ==
    CASE cfg.gradi_op = "gc" -> GcHolds
      [] cfg.gradi_op = "gw" -> GwHolds
      [] cfg.gradi_op = "all" -> GcHolds /\ GwHolds
      [] OTHER -> FALSE

\* C4: after run() returns, is_converged() is true exactly when the run ended
\* on the gradient condition, which then holds on the latest history entries;
\* it is false at the start of every iteration and after an imaginary-
\* frequency, sampling or step-budget stop.
C4_ConvergedFlag ==
    /\ pc \in {"loop", "step", "check"} => ~is_converged(converged)
    /\ Returned =>
          /\ is_converged(converged) <=> obs.stop = "converged"
          /\ is_converged(converged) => ConditionHolds
          /\ (obs.stop # "imaginary" /\ ConditionHolds) => is_converged(converged)
          /\ obs.stop \in {"imaginary", "sampling", "maxsteps"}
                => ~is_converged(converged)

\* a run() called again after a returned one, ending on the sampling check
C4_Witness ==
    /\ Returned /\ obs.prev_call = "run_returned" /\ obs.stop = "sampling"
    /\ ~converged /\ obs.nIter >= 1

\* C5: check_stop declares convergence exactly when the condition selected by
\* gradi_op holds, each condition being a strict comparison of the latest
\* metric with its error times meaningful_factor; with "all" both must hold.
C5_StopCondition ==
    pc = "post" =>
        /\ is_converged(converged) <=> ConditionHolds
        /\ ConditionHolds => ~running /\ obs.stop = "converged"

\* gradi_op = "all" with only the gc condition holding: not converged
C5_Witness ==
    /\ pc = "post" /\ cfg.gradi_op = "all"
    /\ GcHolds /\ ~GwHolds /\ ~converged

\* C6: when the convergence condition does not hold after an iteration and the
\* effective sample size over N is strictly below kong_liu_ratio, the run
\* stops there, not converged; the sampling check stops no run whose ratio is
\* equal to or above kong_liu_ratio.
C6_SamplingStop ==
    /\ (pc = "post" /\ ~ConditionHolds
          /\ Last(hist.KL) * KongLiuDen < KongLiuNum * EnsN) =>
             /\ ~running /\ ~is_converged(converged) /\ obs.stop = "sampling"
    /\ (pc \in {"post", "exit"} /\ obs.stop = "sampling") =>
             Last(hist.KL) * KongLiuDen < KongLiuNum * EnsN
    /\ (pc = "exit" /\ obs.stop = "sampling") => ~is_converged(converged)

\* a sampling stop in the second iteration of a run
C6_Witness ==
    /\ pc = "post" /\ obs.stop = "sampling" /\ obs.nIter = 2
    /\ Last(hist.KL) * KongLiuDen < KongLiuNum * EnsN

\* an iteration that leaves the ratio equal to kong_liu_ratio and runs on
C6_EqualRatioRuns ==
    /\ pc = "post" /\ running
    /\ Last(hist.KL) * KongLiuDen = KongLiuNum * EnsN

\* a run() called right after an init() that succeeded, with a step budget
RunAfterInit ==
    /\ obs.call \in {"run", "run_returned"}
    /\ obs.prev_call = "init"
    /\ cfg.max_ka > 0

\* C7: with max_ka = n > 0 a run() started right after init() executes at
\* most n iterations; the step-budget stop comes at iteration n exactly, and
\* iteration n always ends the run.
C7_StepBudget ==
    RunAfterInit =>
        /\ obs.nIter <= cfg.max_ka
        /\ obs.stop = "maxsteps" => (obs.nIter = cfg.max_ka /\ ~is_converged(converged))
        /\ (pc = "post" /\ obs.nIter = cfg.max_ka) => ~running
        /\ (pc = "post" /\ obs.nIter < cfg.max_ka /\ ~running)
              => obs.stop \in {"converged", "sampling"}

\* max_ka = 3 on inputs that never converge: three iterations, then the
\* step-budget stop
C7_Witness ==
    /\ RunAfterInit /\ Returned /\ cfg.max_ka = 3
    /\ obs.nIter = 3 /\ obs.stop = "maxsteps" /\ ~converged

\* C8: with max_ka negative the step budget never stops the run: an iteration
\* that triggers no convergence, sampling or imaginary-frequency stop is
\* followed by another one, and a run that returns ended on one of the three.
C8_Unbounded ==
    cfg.max_ka < 0 =>
        /\ obs.stop # "maxsteps"
        /\ (pc = "post" /\ obs.stop = "none") => running
        /\ (pc = "loop" /\ obs.nIter > 0) => (running /\ obs.stop = "none")
        /\ Returned => obs.stop \in {"converged", "sampling", "imaginary"}

\* MaxHist iterations made with no stop, and the run goes on
C8_Witness ==
    /\ cfg.max_ka < 0 /\ pc = "loop" /\ running
    /\ obs.nIter = MaxHist /\ Len(hist.fe) >= MaxHist

\* C9: the history is append-only during run(): every step of an iteration
\* and the restore leave each recorded entry in place; only init() clears it.
C9_HistoryAppendOnly ==
    [][\/ \A f \in HistFields : IsPrefix(hist[f], hist'[f])
       \/ /\ pc = "idle"
          /\ obs'.calls = obs.calls + 1
          /\ obs'.call \in {"init", "init_raised"}]_vars

\* a rejected iteration was rolled back and its entries are in the history
C9_Witness ==
    /\ Returned /\ ~converged /\ obs.stop = "sampling" /\ obs.step_dyn # dyn
    /\ obs.prev_call = "none" /\ obs.nIter = 2
    /\ \A f \in HistFields : Len(hist[f]) = 2

\* C10: when both hooks are given, run() has called each of them once per
\* executed iteration by the time it returns, however it ended.
C10_HooksOncePerIteration ==
    (Returned /\ args.pre /\ args.post) =>
        /\ obs.preCalls = obs.nIter
        /\ obs.postCalls = obs.nIter

\* C11: in every iteration of a run() that was given a gradient hook, the hook
\* is called once, before the gradients are recorded and the step is made, and
\* it ends no run with an exception, with structure minimization on or off.
C11_GradHookEveryIteration ==
    (args.grad /\ obs.call \in {"run", "run_returned", "run_raised"}) =>
        /\ pc \in {"check", "post", "exit", "idle"} => obs.gradCalls = obs.nIter
        /\ pc \in {"loop", "step"} => obs.gradCalls + 1 >= obs.nIter
        /\ obs.call = "run_raised" =>
              \/ cfg.gradi_op \notin {"gc", "gw", "all"}
              \/ cfg.minimization_algorithm # "sdes"

\* the joint effect of a hooked step with structure minimization on, written
\* out on the state after the step
HookedStepDone == pc = "check" /\ args.grad /\ cfg.minim_struct

\* C12: the step uses the arrays as the hook left them: after an iteration
\* with the hook of the model and structure minimization on, the coordinates
\* are those the iteration started with, the recorded structure-gradient
\* metric is zero, the recorded matrix-gradient metric is that of the gradient
\* with its block at the last q point set to zero, and the matrix moved by
\* that gradient.
C12_HookedArraysUsed ==
    HookedStepDone =>
        LET hooked == [step_dyn_grad(cfg, obs.answer) EXCEPT ![NQ] = 0]
        IN  /\ dyn.coords = obs.iter_start.coords
            /\ Last(hist.gw) = 0
            /\ Last(hist.gc) = SumSq(hooked)
            /\ prev_grad = hooked
            /\ \A q \in 1..NQ :
                 dyn.dynmats[q] = obs.iter_start.dynmats[q] - min_step_dyn * hooked[q]

\* a hooked step on a non-zero force and a non-zero gradient at the last q
\* point: the hook changed both arrays, and neither the structure nor the
\* matrix moved
C12_Witness ==
    /\ HookedStepDone
    /\ obs.answer.forces # 0 /\ step_dyn_grad(cfg, obs.answer)[NQ] # 0
    /\ dyn = obs.iter_start

\* a call of PerformRootStep that has returned or raised
RootStepDone == fn.op = "PerformRootStep" /\ fn.done

SameNq == Len(fn.in_dyn) = Len(fn.in_grad)

\* the eigenvalues of a zone-centre block with the negative ones set to zero
Clamped(block) == [k \in 1..Len(block) |-> IF block[k] < 0 THEN 0 ELSE block[k]]

ZeroBlock(block) == \A k \in 1..Len(block) : block[k] = 0

\* C13: with representation "normal" and algorithm "sdes" PerformRootStep
\* returns dyn - step * grad, component by component at every q point; a
\* negative eigenvalue of the zone centre is stepped like any other.
C13_NormalStep ==
    (RootStepDone /\ fn.root_representation = "normal"
        /\ fn.minimization_algorithm = "sdes" /\ SameNq) =>
        /\ fn.ret.ok
        /\ Len(fn.ret.val) = Len(fn.in_dyn)
        /\ \A iq \in 1..Len(fn.in_dyn) : \A k \in 1..Len(fn.in_dyn[iq]) :
             fn.ret.val[iq][k] = fn.in_dyn[iq][k] - fn.step_size * fn.in_grad[iq][k]

\* a normal step on a zone-centre block with a negative eigenvalue, which
\* stays negative
C13_Witness ==
    /\ RootStepDone /\ fn.root_representation = "normal" /\ fn.ret.ok
    /\ fn.step_size = 1 /\ fn.in_dyn[1][1] < 0 /\ fn.ret.val[1][1] < 0
    /\ fn.in_grad[NQ] # <<0, 0>> /\ fn.ret.val # fn.in_dyn

\* C14: with representation sqrt or root4 and step size 0 PerformRootStep
\* returns the matrix it was given, at every q point, when the eigenvalues of
\* the zone-centre block are not negative.
C14_ZeroStepRoundTrip ==
    (RootStepDone /\ fn.root_representation \in {"sqrt", "root4"}
        /\ fn.step_size = 0 /\ fn.ret.ok
        /\ \A k \in 1..Len(fn.in_dyn[1]) : fn.in_dyn[1][k] >= 0) =>
        fn.ret.val = fn.in_dyn

\* C15: with representation sqrt or root4 the negative eigenvalues of the
\* zone-centre block are set to zero before anything uses them: the zone-centre
\* block of the result is the one PerformRootStep returns for the matrix with
\* those eigenvalues already zero, and with a zero gradient at the zone centre
\* it is the given block with its negative eigenvalues replaced by zero.
C15_ZoneCentreClamped ==
    (RootStepDone /\ fn.root_representation \in {"sqrt", "root4"} /\ fn.ret.ok) =>
        /\ fn.ret.val[1] =
             PerformRootStep([fn.in_dyn EXCEPT ![1] = Clamped(fn.in_dyn[1])],
                             fn.in_grad, fn.step_size, fn.root_representation,
                             fn.minimization_algorithm).val[1]
        /\ ZeroBlock(fn.in_grad[1]) => fn.ret.val[1] = Clamped(fn.in_dyn[1])

\* a root4 step with a zero gradient on a zone-centre block with a negative
\* eigenvalue
C15_Witness ==
    /\ RootStepDone /\ fn.root_representation = "root4" /\ fn.ret.ok
    /\ fn.step_size = 1 /\ ZeroBlock(fn.in_grad[1])
    /\ fn.in_dyn[1] = <<-1, 16>> /\ fn.ret.val[1] = <<0, 16>>

\* C16: PerformRootStep raises, and returns nothing, exactly when the
\* representation is not one of normal, sqrt, root2, root4, or the algorithm is
\* not "sdes", or the matrix and the gradient differ in their number of q
\* points.
C16_RootStepErrors ==
    RootStepDone =>
        /\ ~fn.ret.ok <=>
             \/ fn.root_representation \notin {"normal", "sqrt", "root2", "root4"}
             \/ fn.minimization_algorithm # "sdes"
             \/ ~SameNq
        /\ ~fn.ret.ok => fn.ret.val = <<>>
        /\ fn.ret.ok => Len(fn.ret.val) = Len(fn.in_dyn)

\* an unimplemented algorithm on a valid representation and matching arrays
C16_Witness ==
    /\ RootStepDone /\ ~fn.ret.ok
    /\ fn.minimization_algorithm = "cgrf" /\ fn.root_representation = "sqrt" /\ SameNq

\* C17: PerformRootStep leaves the arrays it was given as they were, whether it
\* returns or raises, and a returned matrix has the shape of the given one.
C17_RootStepPure ==
    RootStepDone =>
        /\ fn.dyn_q = fn.in_dyn
        /\ fn.grad_q = fn.in_grad
        /\ fn.ret.ok =>
             /\ Len(fn.ret.val) = Len(fn.in_dyn)
             /\ \A iq \in 1..Len(fn.in_dyn) : Len(fn.ret.val[iq]) = Len(fn.in_dyn[iq])

\* a sqrt step that returned a matrix other than the given one
C17_Witness ==
    /\ RootStepDone /\ fn.ret.ok /\ fn.root_representation = "sqrt"
    /\ fn.step_size = 1 /\ fn.ret.val # fn.in_dyn /\ fn.dyn_q = fn.in_dyn

\* C18: a run() of a minimizer whose algorithm is not "sdes" ends with an
\* exception that leaves the matrix, the coordinates and the history as they
\* were when the iteration began.
C18_UnimplementedLeavesState ==
    (obs.call = "run_raised" /\ cfg.minimization_algorithm # "sdes") =>
        /\ dyn = obs.iter_start
        /\ hist = obs.iter_hist

\* a call of GetStructPrecond that has returned
PrecondDone == fn.op = "GetStructPrecond" /\ fn.done

\* the coordinates of the structure
Coordinates == 1..Len(get_masses_array)

\* v . P . v for the vectors v with components -1, 0, 1
QuadraticForm(P, v) == SumOver([a \in Coordinates |-> v[a] * MatDot(P, v)[a]], Coordinates)

\* C19: GetStructPrecond returns a symmetric, positive semi-definite matrix:
\* the sum over the modes that are not translations of
\* eigvec[a] eigvec[b] / (freq^2 sqrt(mass[a] mass[b])), to which the
\* translation adds nothing.
C19_PrecondSymmetricPSD ==
    PrecondDone =>
        LET P == fn.ret
            w == fn.current_dyn.dynmats[1]
        IN  /\ \A a, b \in Coordinates : P[a][b] = P[b][a]
            /\ \A a \in Coordinates : P[a][a] >= 0
            /\ P[1][1] * P[2][2] - P[1][2] * P[2][1] >= 0
            /\ \A v \in [Coordinates -> {-1, 0, 1}] : QuadraticForm(P, v) >= 0
            /\ \A a \in Coordinates : MatDot(P, [b \in Coordinates |-> 1])[a] = 0
            /\ \A a, b \in Coordinates :
                 P[a][b] * Abs(w) =
                    BOHR_TO_ANGSTROM2 * (IF a = b THEN 1 ELSE -1)

\* the preconditioner of a matrix with an imaginary frequency
C19_Witness ==
    /\ PrecondDone /\ fn.current_dyn.dynmats[1] = -1
    /\ fn.ret[1][1] = BOHR_TO_ANGSTROM2 /\ fn.ret[1][2] = - BOHR_TO_ANGSTROM2

\* a step with structure minimization on and no gradient hook
StructStepDone == pc = "check" /\ cfg.minim_struct /\ ~args.grad

\* C20: with structure minimization on, the gradient that is recorded and
\* stepped along is made of the negated force, with the structure
\* preconditioner and without it: the coordinates move along the force, by
\* min_step_struc times the force, times the preconditioner when it is on.
C20_NegatedForce ==
    StructStepDone =>
        LET factor == IF cfg.precond_wyck
                      THEN BOHR_TO_ANGSTROM2 \div obs.iter_start.dynmats[1]
                      ELSE 1
        IN  /\ dyn.coords - obs.iter_start.coords
                 = min_step_struc * factor * obs.answer.forces
            /\ Last(hist.gw) = Abs(factor * obs.answer.forces)

\* the sampling condition of check_stop on the latest entry of the history
SamplingLow == Last(hist.KL) * KongLiuDen < KongLiuNum * EnsN

\* C21: the stops are decided in the order imaginary frequency, convergence,
\* sampling, step budget: a run that stops on an imaginary frequency is not
\* converged whatever the gradients; an iteration in which the convergence
\* condition holds ends converged, with the state of the step kept, whatever
\* the sample size and the budget; sampling decides before the budget.
C21_StopOrder ==
    /\ (pc = "exit" /\ obs.stop = "imaginary") => ~is_converged(converged)
    /\ pc = "post" =>
          /\ ~check_imaginary_frequencies(dyn)
          /\ ConditionHolds => (obs.stop = "converged" /\ is_converged(converged))
          /\ (~ConditionHolds /\ SamplingLow) => obs.stop = "sampling"
          /\ obs.stop = "maxsteps" => (~ConditionHolds /\ ~SamplingLow)
    /\ (Returned /\ obs.stop = "converged") =>
          (is_converged(converged) /\ dyn = obs.step_dyn)

\* an iteration that converges while the sample size is below the threshold
\* and the step budget is used up
C21_Witness ==
    /\ pc = "post" /\ ConditionHolds /\ SamplingLow
    /\ max_ka_reached(hist, cfg.max_ka)
    /\ converged /\ obs.stop = "converged"

\* an imaginary-frequency stop in an iteration whose gradients satisfy the
\* convergence condition
C21_ImaginaryWins ==
    /\ pc = "exit" /\ obs.stop = "imaginary" /\ ConditionHolds /\ ~converged

\* C22: every iteration of run(), the one that ends the run included, adds
\* one entry to each of the seven history sequences.
C22_OneEntryPerIteration ==
    pc \in {"post", "exit"} =>
        \A f \in HistFields : Len(hist[f]) = Len(obs.iter_hist[f]) + 1

\* the average of a sequence over the q-star of q
StarAverage(s, q) ==
    IF q = 1 THEN s[1]
    ELSE SumOver(s, 2..NQ) \div (NQ - 1)

\* C23: with the symmetries on, the gradient is symmetrized over the q-stars
\* in the mode "custom" and its error in the mode "crystal", with no call of
\* the sum rule; with neglect_symmetries the sum rule is imposed once per q
\* point on the gradient and on the error, and nothing is symmetrized.
C23_SymmetryCalls ==
    (pc = "check" /\ ~args.grad) =>
        IF ~cfg.neglect_symmetries
        THEN /\ obs.sym_calls[1] =
                  [f |-> "SymmetrizeFCQ", on |-> "dyn_grad", q |-> 0, asr |-> "custom"]
             /\ obs.sym_calls[2] =
                  [f |-> "SymmetrizeFCQ", on |-> "err", q |-> 0, asr |-> "crystal"]
             /\ \A i \in 1..Len(obs.sym_calls) : obs.sym_calls[i].f # "ImposeSumRule"
             /\ \A q \in 1..NQ : prev_grad[q] = StarAverage(obs.answer.dyn_grad, q)
             /\ Last(hist.gc_err) =
                  SumSq([q \in 1..NQ |-> StarAverage(obs.answer.err, q)])
        ELSE /\ Len(obs.sym_calls) = 2 * NQ
             /\ \A i \in 1..Len(obs.sym_calls) : obs.sym_calls[i].f = "ImposeSumRule"
             /\ \A q \in 1..NQ : \A on \in {"dyn_grad", "err"} :
                  Cardinality({i \in 1..Len(obs.sym_calls) :
                                 obs.sym_calls[i].q = q /\ obs.sym_calls[i].on = on}) = 1
             /\ prev_grad = obs.answer.dyn_grad
             /\ Last(hist.gc_err) = SumSq(obs.answer.err)

\* a step with neglect_symmetries on a gradient that lacks the symmetry of the
\* q-star, which is used as it is
C23_Witness ==
    /\ pc = "check" /\ ~args.grad /\ cfg.neglect_symmetries
    /\ obs.answer.dyn_grad[NQ] # obs.answer.dyn_grad[NQ - 1]
    /\ prev_grad = obs.answer.dyn_grad

\* a step with the symmetries on, on the same kind of gradient
C23_SymmetrizedStep ==
    /\ pc = "check" /\ ~args.grad /\ ~cfg.neglect_symmetries
    /\ obs.answer.dyn_grad[NQ] # obs.answer.dyn_grad[NQ - 1]
    /\ prev_grad[NQ] = prev_grad[NQ - 1]

\* C24: with structure minimization off the coordinates stay those the
\* minimizer was built with, the ensemble is never asked for the average
\* forces, and every iteration records a structure-gradient metric and error
\* of zero.
C24_StructureUntouched ==
    ~cfg.minim_struct =>
        /\ dyn.coords = 0 /\ old_dyn.coords = 0 /\ ens.current_dyn.coords = 0
        /\ ~obs.forces_asked
        /\ \A i \in 1..Len(hist.gw) : hist.gw[i] = 0
        /\ \A i \in 1..Len(hist.gw_err) : hist.gw_err[i] = 0
        /\ pc = "check" => Len(hist.gw) = Len(obs.iter_hist.gw) + 1

\* two iterations with structure minimization off, the ensemble having a
\* non-zero force
C24_Witness ==
    /\ ~cfg.minim_struct /\ pc = "check" /\ obs.nIter = 2
    /\ obs.answer.forces # 0 /\ Len(hist.gw) >= 2
    /\ dyn.dynmats # obs.iter_start.dynmats

\* C25: the ensemble is queried, by init() and by run(), only while it holds
\* the matrix the minimizer holds.
C25_QueriesInSync == ~obs.stale

\* C26: an init() that ends with the configuration error leaves the matrix,
\* the history, the previous gradient and the step size as they were.
C26_RejectedInitLeavesState ==
    obs.call = "init_raised" =>
        /\ cfg.root_representation # "normal" /\ cfg.precond_dyn
        /\ dyn = obs.before_init.dyn
        /\ hist = obs.before_init.hist
        /\ prev_grad = obs.before_init.prev_grad
        /\ min_step_struc = obs.before_init.min_step_struc

\* C27: with structure minimization off and gradi_op "gw" or "all" the
\* structure condition never holds and no run() ends converged: a run that
\* returns ended on an imaginary frequency, the sampling or the step budget.
C27_NeverConvergedWithoutStructure ==
    (~cfg.minim_struct /\ cfg.gradi_op \in {"gw", "all"}) =>
        /\ ~is_converged(converged)
        /\ obs.stop # "converged"
        /\ hist.gw # <<>> => ~GwHolds
        /\ Returned => obs.stop \in {"imaginary", "sampling", "maxsteps"}

\* a run with gradi_op "all" that ends on the step budget although the
\* gradient of the matrix satisfies its condition
C27_Witness ==
    /\ ~cfg.minim_struct /\ cfg.gradi_op = "all" /\ Returned
    /\ GcHolds /\ obs.stop = "maxsteps" /\ ~converged

\* C28: the step budget counts the free energies recorded since the last
\* init(): with max_ka > 0 a run() that started with fe0 recorded free
\* energies makes max(1, max_ka + 1 - fe0) iterations before the step-budget
\* stop, that is max(1, max_ka - iterations recorded since init) after an
\* init(), one after a step-budget stop, and max_ka + 1 with no init() at all.
C28_BudgetSinceInit ==
    (cfg.max_ka > 0 /\ pc = "post") =>
        LET fe0 == Len(hist.fe) - obs.nIter
            due == Max({1, cfg.max_ka + 1 - fe0})
        IN  /\ fe0 >= 0
            /\ obs.nIter <= due
            /\ obs.nIter = due => ~running
            /\ obs.stop = "maxsteps" => obs.nIter = due
            /\ (obs.nIter < due /\ ~running) => obs.stop \in {"converged", "sampling"}

\* a run() called again after a step-budget stop: one iteration
C28_Witness ==
    /\ Returned /\ obs.prev_call = "run_returned" /\ obs.stop = "maxsteps"
    /\ obs.nIter = 1 /\ Len(hist.fe) > cfg.max_ka + 1

\* a run() with no init() before it: max_ka + 1 iterations
C28_NoInitRun ==
    /\ Returned /\ obs.prev_call = "none" /\ obs.stop = "maxsteps"
    /\ obs.nIter = cfg.max_ka + 1

\* C29: after init() the structure step is lambda_w times the best Wyckoff
\* step of the matrix when precond_wyck is off, however many times init() was
\* called, and lambda_w when precond_wyck is on.
C29_StepNotAccumulated ==
    obs.call = "init" =>
        IF cfg.precond_wyck
        THEN min_step_struc = lambda_w
        ELSE min_step_struc = lambda_w * GetBestWykoffStep(dyn)

====
